---- MODULE Spec2Model ----
(***************************************************************************)
(* Agent coordinator (src/src/coordinator.py, src/src/main.py): the agent  *)
(* registry, request routing, the administrative operations, and the       *)
(* client-context pipeline.                                                *)
(*                                                                         *)
(* Handlers are asyncio coroutines on one event loop.  A handler runs       *)
(* without interruption from one `await` to the next, so each action below  *)
(* is the code between two awaits; another handler may run at an await.     *)
(***************************************************************************)
EXTENDS Integers, Sequences, FiniteSets, TLC

VARIABLES agents, reqs, admin_reply, call, proj, pair, hreq, synth,
          maintenance, status_reply

vars == <<agents, reqs, admin_reply, call, proj, pair, hreq, synth,
          maintenance, status_reply>>

(***************************************************************************)
(* Bounds of the model.                                                    *)
(***************************************************************************)
\* Coordination requests that can be in progress at once.
MaxRequests == 2

(***************************************************************************)
(* models.py: the enumerations.                                            *)
(***************************************************************************)
HEALTHY == "healthy"
DEGRADED == "degraded"
UNAVAILABLE == "unavailable"
MAINTENANCE == "maintenance"
AgentStatusEnum == {HEALTHY, DEGRADED, UNAVAILABLE, MAINTENANCE}

CONTENT_RESEARCH == "content_research"
TECHNICAL_SEO == "technical_seo"
PROJECT_PLANNING == "project_planning"
BRD_GENERATION == "brd_generation"
SOCIAL_MEDIA == "social_media"
AgentType ==
    {CONTENT_RESEARCH, TECHNICAL_SEO, PROJECT_PLANNING, BRD_GENERATION, SOCIAL_MEDIA}

(***************************************************************************)
(* AgentCoordinator.__init__: the agent pool.                              *)
(***************************************************************************)
AgentIds == {"content_research_agent", "technical_seo_agent"}

\* Python's str ordering of the two agent ids ("c" < "t").
IdRank == [a \in AgentIds |-> IF a = "content_research_agent" THEN 1 ELSE 2]

\* max_capacity of every agent of the pool.
InitialMaxCapacity == 100

\* average_response_time of every agent of the pool, 0.5 s, in tenths of a second.
InitialAverageResponseTime == 5

InitialAgents ==
    [a \in AgentIds |->
        [type |-> IF a = "content_research_agent" THEN CONTENT_RESEARCH
                                                  ELSE TECHNICAL_SEO,
         status |-> HEALTHY,
         current_load |-> 0,
         max_capacity |-> InitialMaxCapacity,
         average_response_time |-> InitialAverageResponseTime]]

(***************************************************************************)
(* CoordinationRequest (models.py).  An Optional list is a record: none     *)
(* says the field is None, val holds the list otherwise.                    *)
(***************************************************************************)
NoPreference == [none |-> TRUE, val |-> <<>>]
Preferred(types) == [none |-> FALSE, val |-> types]

PreferredChoices == {NoPreference, Preferred(<<TECHNICAL_SEO>>)}

CoordinationRequests ==
    [preferred_agents : PreferredChoices, require_multi_agent : BOOLEAN]

(***************************************************************************)
(* _route_request.  The list comprehension keeps the agents that are        *)
(* HEALTHY and below capacity; random.choice picks any one of them and      *)
(* raises IndexError on an empty list.  The decision holds the registry's   *)
(* own dict of the chosen agent, so the model keeps the agent's id: what    *)
(* the decision shows of the agent is read through it from the registry.    *)
(***************************************************************************)
available_agents_any_status(ags) ==
    {a \in AgentIds : ags[a].current_load < ags[a].max_capacity}

available_agents(ags) ==
    {a \in AgentIds :
        /\ ags[a].status = HEALTHY
        /\ ags[a].current_load < ags[a].max_capacity}

\* Every decision random.choice can produce; the empty set is the IndexError.
Decisions(candidates) ==
    {[selected_agents |-> <<a>>, reasoning |-> "Random selection for demo."] :
        a \in candidates}

route_request_fall_back(ags, request) ==
    IF available_agents(ags) = {} THEN Decisions(AgentIds)
                                  ELSE Decisions(available_agents(ags))

route_request(ags, request) == Decisions(available_agents(ags))

NoDecision == [selected_agents |-> <<>>, reasoning |-> ""]

(***************************************************************************)
(* _gather_agent_responses and _synthesize_responses.                       *)
(***************************************************************************)
\* confidence=0.9 of every simulated response, in hundredths.
SimulatedConfidence == 90

\* A gather that loses every invocation.
gather_no_responses(ags, routing_decision) == <<>>

gather_agent_responses(ags, routing_decision) ==
    [i \in DOMAIN routing_decision.selected_agents |->
        LET agent == ags[routing_decision.selected_agents[i]] IN
        [agent_id |-> agent.type,
         agent_type |-> agent.type,
         response |-> "Simulated response",
         confidence |-> SimulatedConfidence]]

\* The synthesized text is the header line followed by one line per response.
synthesize_responses(agent_responses) ==
    <<"Synthesized Response: ">> \o
        [i \in DOMAIN agent_responses |-> agent_responses[i].response]

(***************************************************************************)
(* restart_agent and enter_maintenance_mode, as functions of the registry.  *)
(***************************************************************************)
restart_agent_decrement_load(ags, agent_id) ==
    IF agent_id \in AgentIds
    THEN [ags EXCEPT ![agent_id].status = HEALTHY,
                     ![agent_id].current_load = ags[agent_id].current_load - 1]
    ELSE ags

\* A restart that restarts the whole pool.
restart_agent_whole_pool(ags, agent_id) ==
    IF agent_id \in AgentIds
    THEN [a \in AgentIds |-> [ags[a] EXCEPT !.status = HEALTHY, !.current_load = 0]]
    ELSE ags

restart_agent(ags, agent_id) ==
    IF agent_id \in AgentIds
    THEN [ags EXCEPT ![agent_id].status = HEALTHY, ![agent_id].current_load = 0]
    ELSE ags

\* A maintenance mode that stops after the first agent of the pool.
enter_maintenance_mode_first_agent(ags) ==
    [a \in AgentIds |->
        IF IdRank[a] = 1 THEN [ags[a] EXCEPT !.status = MAINTENANCE] ELSE ags[a]]

\* A maintenance mode seen half-way through its loop, before the last agent.
enter_maintenance_mode_before_last(ags) ==
    [a \in AgentIds |->
        IF IdRank[a] < Cardinality(AgentIds)
        THEN [ags[a] EXCEPT !.status = MAINTENANCE] ELSE ags[a]]

enter_maintenance_mode(ags) ==
    [a \in AgentIds |-> [ags[a] EXCEPT !.status = MAINTENANCE]]

(***************************************************************************)
(* The state of one request of POST /coordinate.                            *)
(*   pc               "idle", "gathering" (at the await of                 *)
(*                    _gather_agent_responses), "completed", "failed"       *)
(*   routed_on        the registry as _route_request read it                *)
(*   status_code      the HTTP status the caller sees, 0 while in progress  *)
(***************************************************************************)
Reqs == 1..MaxRequests

IdleRequest ==
    [pc |-> "idle",
     request |-> [preferred_agents |-> NoPreference, require_multi_agent |-> FALSE],
     routed_on |-> InitialAgents,
     routing_decision |-> NoDecision,
     agent_responses |-> <<>>,
     synthesized_response |-> <<>>,
     status_code |-> 0,
     error |-> ""]

NoAdminReply == [status_code |-> 0, success |-> FALSE]

\* The variables of the context specifications, unused by Spec.
NoCall == [pc |-> "none"]
NoProj == [pc |-> "none"]
NoPair == [pc |-> "none"]
NoSynth == [pc |-> "none"]

\* History of the admin operations: whether enter_maintenance_mode has run,
\* and the agents restart_agent has restarted since it last ran.
NoMaintenance == [entered |-> FALSE, restarted |-> {}]

\* No status endpoint has answered yet.
NoStatusReply == [kind |-> "none"]

\* No request of the handler specification is in progress.
IdleHandler == [pc |-> "idle"]

Init ==
    /\ agents = InitialAgents
    /\ reqs = [r \in Reqs |-> IdleRequest]
    /\ admin_reply = NoAdminReply
    /\ call = NoCall
    /\ proj = NoProj
    /\ pair = NoPair
    /\ hreq = IdleHandler
    /\ synth = NoSynth
    /\ maintenance = NoMaintenance
    /\ status_reply = NoStatusReply

(***************************************************************************)
(* POST /coordinate, main.coordinate_request calling process_request.       *)
(***************************************************************************)
\* From the handler's entry to its first await: _route_request runs here.
\* An IndexError leaves process_request and is caught by the handler's
\* `except Exception`, which answers 500.
CoordinateRequest(r, request) ==
    /\ reqs[r].pc = "idle"
    /\ IF route_request(agents, request) = {}
       THEN reqs' = [reqs EXCEPT ![r] =
                [IdleRequest EXCEPT !.pc = "failed",
                                    !.request = request,
                                    !.routed_on = agents,
                                    !.status_code = 500,
                                    !.error = "IndexError"]]
       ELSE \E d \in route_request(agents, request) :
                reqs' = [reqs EXCEPT ![r] =
                    [IdleRequest EXCEPT !.pc = "gathering",
                                        !.request = request,
                                        !.routed_on = agents,
                                        !.routing_decision = d]]
    /\ UNCHANGED <<agents, admin_reply, call, proj, pair, hreq, synth, maintenance, status_reply>>

\* From the await of _gather_agent_responses to the handler's return.
GatherAndRespond(r) ==
    /\ reqs[r].pc = "gathering"
    /\ LET responses == gather_agent_responses(agents, reqs[r].routing_decision) IN
       reqs' = [reqs EXCEPT ![r].pc = "completed",
                            ![r].agent_responses = responses,
                            ![r].synthesized_response = synthesize_responses(responses),
                            ![r].status_code = 200]
    /\ UNCHANGED <<agents, admin_reply, call, proj, pair, hreq, synth, maintenance, status_reply>>

\* The caller has its answer; the slot serves the next request.
Deliver(r) ==
    /\ reqs[r].pc \in {"completed", "failed"}
    /\ reqs' = [reqs EXCEPT ![r] = IdleRequest]
    /\ UNCHANGED <<agents, admin_reply, call, proj, pair, hreq, synth, maintenance, status_reply>>

(***************************************************************************)
(* POST /admin/agents/{id}/restart and POST /admin/system/maintenance.      *)
(***************************************************************************)
AdminAgentIds == AgentIds \cup {"unknown_agent"}

\* An admin check that rejects nobody.
admin_access_denied_never(is_admin) == FALSE

\* `if not current_user.is_admin: raise HTTPException(status_code=403, ...)`
admin_access_denied(is_admin) == ~is_admin

RestartAgent(is_admin, agent_id) ==
    /\ IF admin_access_denied(is_admin)
       THEN /\ admin_reply' = [status_code |-> 403, success |-> FALSE]
            /\ UNCHANGED agents
       ELSE /\ agents' = restart_agent(agents, agent_id)
            /\ admin_reply' = [status_code |-> 200, success |-> agent_id \in AgentIds]
    /\ maintenance' = IF is_admin /\ agent_id \in AgentIds /\ maintenance.entered
                      THEN [maintenance EXCEPT !.restarted = @ \cup {agent_id}]
                      ELSE maintenance
    /\ UNCHANGED <<reqs, call, proj, pair, hreq, synth, status_reply>>

EnterMaintenanceMode(is_admin) ==
    /\ IF admin_access_denied(is_admin)
       THEN /\ admin_reply' = [status_code |-> 403, success |-> FALSE]
            /\ UNCHANGED agents
       ELSE /\ agents' = enter_maintenance_mode(agents)
            /\ admin_reply' = [status_code |-> 200, success |-> TRUE]
    /\ maintenance' = IF is_admin THEN [entered |-> TRUE, restarted |-> {}]
                                  ELSE maintenance
    /\ UNCHANGED <<reqs, call, proj, pair, hreq, synth, status_reply>>

Next ==
    \/ \E r \in Reqs, request \in CoordinationRequests : CoordinateRequest(r, request)
    \/ \E r \in Reqs : GatherAndRespond(r)
    \/ \E r \in Reqs : Deliver(r)
    \/ \E is_admin \in BOOLEAN, agent_id \in AdminAgentIds : RestartAgent(is_admin, agent_id)
    \/ \E is_admin \in BOOLEAN : EnterMaintenanceMode(is_admin)

Spec == Init /\ [][Next]_vars

(***************************************************************************)
(* Python values the client-context code handles.  Every value carries its  *)
(* type, so that None, a str, a list and a dict are all distinct and the    *)
(* truth value of each is Python's.  A dict is a function from its keys.    *)
(***************************************************************************)
PyNone == [py |-> "None"]
Str(s) == [py |-> "str", s |-> s]
List(items) == [py |-> "list", items |-> items]
Dict(d) == [py |-> "dict", d |-> d]
EmptyDict == Dict(<<>>)

\* bool(v): None, "", [] and {} are false; a pydantic model object is true.
Truthy(v) ==
    CASE v.py = "None" -> FALSE
      [] v.py = "str" -> v.s # ""
      [] v.py = "list" -> v.items # <<>>
      [] v.py = "dict" -> DOMAIN v.d # {}
      [] OTHER -> TRUE

\* dict.get(key, default)
Get(v, key, default) == IF key \in DOMAIN v.d THEN v.d[key] ELSE default

(***************************************************************************)
(* client_storage.py: the storage service in front of a pluggable backend.  *)
(* What the backend answers is the environment's choice: a list of ids or   *)
(* an exception for list_client_ids, a dict, None or an exception for       *)
(* get_client_data.  Both methods turn an exception into the empty answer.  *)
(***************************************************************************)
\* A listing whose error handler is missing: the backend's answer stands.
list_client_ids_ignoring_error(list_outcome, user_id) == list_outcome.ids[user_id]

\* list_outcome: [raises, ids], ids a function from user ids to sets of ids.
list_client_ids(list_outcome, user_id) ==
    IF list_outcome.raises THEN {} ELSE list_outcome.ids[user_id]

\* get_outcome: [raises, data], data a function from client ids to dict or None.
get_client_data(get_outcome, client_id) ==
    IF get_outcome.raises THEN PyNone ELSE get_outcome.data[client_id]

(***************************************************************************)
(* _filter_brand_data, _filter_audience_data and the ClientContext that     *)
(* _get_client_context builds.                                              *)
(***************************************************************************)
filter_brand_data_unfiltered(brand_data) ==
    IF ~Truthy(brand_data) THEN PyNone ELSE brand_data

filter_brand_data(brand_data) ==
    IF ~Truthy(brand_data)
    THEN PyNone
    ELSE Dict([tone |-> Get(brand_data, "tone", PyNone),
               voice |-> Get(brand_data, "voice", PyNone),
               restrictions |-> Get(brand_data, "avoid_words", List(<<>>)),
               messaging_pillars |-> Get(brand_data, "messaging_pillars", List(<<>>))])

filter_audience_data(audience_data) ==
    IF ~Truthy(audience_data)
    THEN PyNone
    ELSE Dict([primary_audience |-> Get(audience_data, "primary", PyNone),
               demographics |->
                   Dict([age_range |-> Get(audience_data, "age_range", PyNone),
                         interests |-> Get(audience_data, "interests", List(<<>>))])])

ClientContext(client_id, brand_voice, target_audience, compliance_notes) ==
    [py |-> "ClientContext",
     client_id |-> client_id,
     brand_voice |-> brand_voice,
     target_audience |-> target_audience,
     compliance_notes |-> compliance_notes]

\* _validate_client_access: `client_id in accessible_clients`.
validate_client_access_always(accessible_clients, client_id) == TRUE

\* An access check that grants any client to a user who has some client.
validate_client_access_any_client(accessible_clients, client_id) ==
    accessible_clients # {}

validate_client_access(accessible_clients, client_id) ==
    client_id \in accessible_clients

\* The part of _get_client_context after the fetch: None for falsy client
\* data (None and the empty dict alike), the filtered context otherwise.
build_client_context(client_id, client_data) ==
    IF ~Truthy(client_data)
    THEN PyNone
    ELSE ClientContext(
             client_id,
             filter_brand_data(Get(client_data, "brand_guidelines", PyNone)),
             filter_audience_data(Get(client_data, "target_audience", PyNone)),
             Get(client_data, "compliance_requirements", List(<<>>)))

(***************************************************************************)
(* _prepare_agent_context.                                                  *)
(***************************************************************************)
prepare_agent_context_full_brand(agent, client_context) ==
    IF ~Truthy(client_context)
    THEN EmptyDict
    ELSE IF agent.type \in {CONTENT_RESEARCH, TECHNICAL_SEO}
         THEN Dict([brand_voice |-> client_context.brand_voice,
                    target_audience |-> client_context.target_audience,
                    compliance_notes |-> client_context.compliance_notes])
         ELSE Dict([client_id |-> Str(client_context.client_id)])

prepare_agent_context(agent, client_context) ==
    IF ~Truthy(client_context)
    THEN EmptyDict
    ELSE IF agent.type = CONTENT_RESEARCH
         THEN Dict([brand_voice |-> client_context.brand_voice,
                    target_audience |-> client_context.target_audience,
                    compliance_notes |-> client_context.compliance_notes])
         ELSE IF agent.type = TECHNICAL_SEO
         THEN Dict([brand_voice |->
                        IF Truthy(client_context.brand_voice)
                        THEN Get(client_context.brand_voice, "tone", PyNone)
                        ELSE PyNone,
                    compliance_notes |-> client_context.compliance_notes])
         ELSE Dict([client_id |-> Str(client_context.client_id)])

(***************************************************************************)
(* _get_client_context(client_id, user), as GET /clients/{id}/context and   *)
(* process_request_with_client call it.  The store's answers are fixed when *)
(* the call starts.                                                         *)
(***************************************************************************)
ClientIds == {"promise_money", "client_123"}
UserIds == {"test_user_123", "user_2"}

\* The mock profile of _get_from_json_files.
MockBrandGuidelines ==
    Dict([tone |-> Str("professional"),
          voice |-> Str("authoritative"),
          avoid_words |-> List(<<"cheap", "discount">>),
          messaging_pillars |-> List(<<"quality", "reliability", "expertise">>)])

MockTargetAudience ==
    Dict([primary |-> Str("SME owners"),
          age_range |-> Str("35-55"),
          interests |-> List(<<"business growth", "efficiency",
                               "digital transformation">>)])

MockComplianceRequirements == List(<<"FCA compliant", "GDPR compliant">>)

MockClientData(client_id) ==
    Dict([client_id |-> Str(client_id),
          brand_guidelines |-> MockBrandGuidelines,
          target_audience |-> MockTargetAudience,
          compliance_requirements |-> MockComplianceRequirements,
          last_updated |-> Str("2026-01-01T00:00:00")])

\* What a backend can hold for a client: nothing, an empty document, the mock
\* profile, a profile with no card, a profile with a partial brand card.
RawClientData(client_id) ==
    {PyNone,
     EmptyDict,
     MockClientData(client_id),
     Dict([client_id |-> Str(client_id)]),
     Dict([brand_guidelines |-> Dict([tone |-> Str("casual")]),
           target_audience |-> EmptyDict])}

ListOutcomes ==
    {[raises |-> TRUE, ids |-> [u \in UserIds |-> {}]]}
        \cup [raises : {FALSE}, ids : [UserIds -> SUBSET ClientIds]]

GetOutcomes ==
    {[raises |-> TRUE, data |-> [c \in ClientIds |-> PyNone]]}
        \cup {[raises |-> FALSE, data |-> d] :
                 d \in {f \in [ClientIds -> UNION {RawClientData(c) : c \in ClientIds}] :
                           \A c \in ClientIds : f[c] \in RawClientData(c)}}

InitResolve ==
    /\ agents = InitialAgents
    /\ reqs = [r \in Reqs |-> IdleRequest]
    /\ admin_reply = NoAdminReply
    /\ proj = NoProj
    /\ pair = NoPair
    /\ hreq = IdleHandler
    /\ synth = NoSynth
    /\ maintenance = NoMaintenance
    /\ status_reply = NoStatusReply
    /\ call \in [pc : {"start"},
                 client_id : ClientIds,
                 user_id : UserIds,
                 list_outcome : ListOutcomes,
                 get_outcome : GetOutcomes,
                 accessible_clients : {{}},
                 fetched : {FALSE},
                 client_data : {PyNone},
                 result : {PyNone}]

\* _validate_client_access and the early return of _get_client_context.
ValidateClientAccess ==
    /\ call.pc = "start"
    /\ LET accessible_clients == list_client_ids(call.list_outcome, call.user_id) IN
       call' = [call EXCEPT
                   !.accessible_clients = accessible_clients,
                   !.pc = IF validate_client_access(accessible_clients, call.client_id)
                          THEN "fetch" ELSE "done"]
    /\ UNCHANGED <<agents, reqs, admin_reply, proj, pair, hreq, synth, maintenance, status_reply>>

\* _fetch_client_data and the rest of _get_client_context.
FetchClientData ==
    /\ call.pc = "fetch"
    /\ LET client_data == get_client_data(call.get_outcome, call.client_id) IN
       call' = [call EXCEPT
                   !.fetched = TRUE,
                   !.client_data = client_data,
                   !.result = build_client_context(call.client_id, client_data),
                   !.pc = "done"]
    /\ UNCHANGED <<agents, reqs, admin_reply, proj, pair, hreq, synth, maintenance, status_reply>>

NextResolve ==
    \/ ValidateClientAccess
    \/ FetchClientData

SpecResolve == InitResolve /\ [][NextResolve]_vars

(***************************************************************************)
(* _prepare_agent_context(agent, client_context) on any agent type and any  *)
(* ClientContext or None, as test_client_context.py calls it.               *)
(***************************************************************************)
BrandVoices ==
    {PyNone, EmptyDict, filter_brand_data(MockBrandGuidelines),
     Dict([voice |-> Str("authoritative")])}

TargetAudiences == {PyNone, filter_audience_data(MockTargetAudience)}

ComplianceNotes == {PyNone, List(<<>>), MockComplianceRequirements}

ClientContexts ==
    {ClientContext(c, bv, ta, cn) :
        c \in ClientIds, bv \in BrandVoices, ta \in TargetAudiences,
        cn \in ComplianceNotes}

InitProject ==
    /\ agents = InitialAgents
    /\ reqs = [r \in Reqs |-> IdleRequest]
    /\ admin_reply = NoAdminReply
    /\ call = NoCall
    /\ pair = NoPair
    /\ hreq = IdleHandler
    /\ synth = NoSynth
    /\ maintenance = NoMaintenance
    /\ status_reply = NoStatusReply
    /\ proj \in [pc : {"call"},
                 agent : [type : AgentType],
                 client_context : ClientContexts \cup {PyNone},
                 agent_context : {EmptyDict}]

PrepareAgentContext ==
    /\ proj.pc = "call"
    /\ proj' = [proj EXCEPT
                   !.agent_context = prepare_agent_context(proj.agent, proj.client_context),
                   !.pc = "returned"]
    /\ UNCHANGED <<agents, reqs, admin_reply, call, pair, hreq, synth, maintenance, status_reply>>

NextProject == PrepareAgentContext

SpecProject == InitProject /\ [][NextProject]_vars

(***************************************************************************)
(* _get_client_context on two raw profiles of one client, after the access  *)
(* check has passed: what the built context and the per-agent contexts      *)
(* depend on.                                                               *)
(***************************************************************************)
\* The mock brand card with a field _filter_brand_data does not read.
BrandGuidelinesWithLogo ==
    Dict([tone |-> Str("professional"),
          voice |-> Str("authoritative"),
          avoid_words |-> List(<<"cheap", "discount">>),
          messaging_pillars |-> List(<<"quality", "reliability", "expertise">>),
          logo_url |-> Str("https://cdn.example/logo.png")])

\* Raw profiles that differ in fields the context code reads and in fields it
\* does not read (client_id, last_updated, billing, logo_url, income).
FilterProfiles(client_id) ==
    {EmptyDict,
     Dict([client_id |-> Str(client_id)]),
     MockClientData(client_id),
     Dict([brand_guidelines |-> MockBrandGuidelines,
           target_audience |-> MockTargetAudience,
           compliance_requirements |-> MockComplianceRequirements]),
     Dict([brand_guidelines |-> BrandGuidelinesWithLogo,
           target_audience |-> MockTargetAudience,
           compliance_requirements |-> MockComplianceRequirements,
           billing |-> Str("IBAN GB00 0000")]),
     Dict([brand_guidelines |-> EmptyDict,
           billing |-> Str("IBAN GB00 0000")]),
     Dict([brand_guidelines |-> Dict([logo_url |-> Str("https://cdn.example/logo.png")]),
           last_updated |-> Str("2026-01-01T00:00:00")]),
     Dict([target_audience |-> Dict([income |-> Str("high")]),
           client_id |-> Str(client_id)]),
     Dict([brand_guidelines |-> Dict([tone |-> Str("casual")]),
           compliance_requirements |-> List(<<"GDPR compliant">>)])}

\* The context of every agent type, as _gather_agent_responses_with_context
\* prepares it for an agent of that type.
agent_contexts(client_context) ==
    [t \in AgentType |-> prepare_agent_context([type |-> t], client_context)]

InitFilter ==
    /\ agents = InitialAgents
    /\ reqs = [r \in Reqs |-> IdleRequest]
    /\ admin_reply = NoAdminReply
    /\ call = NoCall
    /\ proj = NoProj
    /\ hreq = IdleHandler
    /\ synth = NoSynth
    /\ maintenance = NoMaintenance
    /\ status_reply = NoStatusReply
    /\ \E c \in ClientIds :
          pair \in [pc : {"fetched"},
                    client_id : {c},
                    profile1 : FilterProfiles(c),
                    profile2 : FilterProfiles(c),
                    context1 : {PyNone},
                    context2 : {PyNone}]

BuildContexts ==
    /\ pair.pc = "fetched"
    /\ pair' = [pair EXCEPT
                   !.context1 = build_client_context(pair.client_id, pair.profile1),
                   !.context2 = build_client_context(pair.client_id, pair.profile2),
                   !.pc = "built"]
    /\ UNCHANGED <<agents, reqs, admin_reply, call, proj, hreq, synth, maintenance, status_reply>>

NextFilter == BuildContexts

SpecFilter == InitFilter /\ [][NextFilter]_vars

(***************************************************************************)
(* One request through a coordination endpoint, in full: POST /coordinate   *)
(* (process_request) or POST /coordinate/client                             *)
(* (process_request_with_client), with the registry changing under it by    *)
(* the admin operations.  Times are in tenths of a second, scores in        *)
(* hundredths.                                                              *)
(***************************************************************************)
\* The SLA threshold of the handlers, 2.0 s.
SlaThreshold == 20

\* time.time() - start_time as the handler measures it: below, at and above
\* the threshold.
ElapsedChoices == {10, SlaThreshold, 30}

\* random.uniform(0.7, 1.0): the ends and a value between.
QualityChoices == {70, 90, 100}

\* random.uniform(0.1, 3.0): the ends.
ProcessingTimeChoices == {1, 30}

COORDINATE == "/coordinate"
COORDINATE_CLIENT == "/coordinate/client"

\* CoordinationRequestWithClient; a CoordinationRequest has no client fields,
\* which reads here as client_id None and use_client_context False.
HandlerRequests(endpoint) ==
    IF endpoint = COORDINATE
    THEN [preferred_agents : {NoPreference},
          require_multi_agent : {FALSE},
          client_id : {PyNone},
          use_client_context : {FALSE}]
    ELSE [preferred_agents : {NoPreference},
          require_multi_agent : {FALSE},
          client_id : {PyNone, Str(""), Str("promise_money")},
          use_client_context : BOOLEAN]

\* What the backend answers the one user of this specification.
\* raises: the backend call fails, whatever the backend holds.
HandlerListOutcomes ==
    {[raises |-> raises, ids |-> [u \in UserIds |-> ids]] :
        raises \in BOOLEAN, ids \in SUBSET ClientIds}

HandlerGetOutcomes ==
    {[raises |-> raises, data |-> [c \in ClientIds |-> d]] :
        raises \in BOOLEAN,
        d \in {PyNone, EmptyDict, MockClientData("promise_money")}}

\* `if request.use_client_context and request.client_id`
wants_client_context_ignoring_flag(request) == Truthy(request.client_id)

wants_client_context(request) ==
    request.use_client_context /\ Truthy(request.client_id)

\* `client_context is not None`
client_context_used_always(client_context) == TRUE

client_context_used(client_context) == client_context # PyNone

\* `processing_time > 2.0`
sla_violation_at_threshold(processing_time) == processing_time >= SlaThreshold

sla_violation(processing_time) == processing_time > SlaThreshold

\* _gather_agent_responses_with_context.  The response text is the f-string
\* "Response with context: {agent_context}": response holds its fixed part,
\* agent_context the dict formatted into it.
gather_agent_responses_with_context(ags, routing_decision, client_context) ==
    [i \in DOMAIN routing_decision.selected_agents |->
        LET agent == ags[routing_decision.selected_agents[i]] IN
        [agent_id |-> agent.type,
         agent_type |-> agent.type,
         response |-> "Response with context: ",
         agent_context |-> prepare_agent_context(agent, client_context),
         confidence |-> SimulatedConfidence,
         metadata |-> [client_context_used |-> client_context # PyNone]]]

\* A request that has entered its handler.
StartedHandler(endpoint, request, user_id) ==
    [pc |-> "started",
     endpoint |-> endpoint,
     request |-> request,
     user_id |-> user_id,
     store_queries |-> <<>>,
     list_error |-> FALSE,
     get_error |-> FALSE,
     accessible_clients |-> {},
     client_data |-> PyNone,
     client_context |-> PyNone,
     routed |-> FALSE,
     routed_on |-> InitialAgents,
     routing_decision |-> NoDecision,
     agent_responses |-> <<>>,
     synthesized_response |-> <<>>,
     total_processing_time |-> 0,
     quality_score |-> 0,
     client_context_used |-> FALSE,
     elapsed |-> 0,
     sla_violation |-> FALSE,
     status_code |-> 0,
     error |-> ""]

\* request_id and _route_request, which run without an await once the client
\* context is settled: the request goes on to gather, or the IndexError of an
\* empty pool reaches the handler's `except Exception`.
RouteOutcomes(h, ags) ==
    IF route_request(ags, h.request) = {}
    THEN {[h EXCEPT !.pc = "failed",
                    !.routed_on = ags,
                    !.status_code = 500,
                    !.error = "IndexError"]}
    ELSE {[h EXCEPT !.pc = "gathering",
                    !.routed = TRUE,
                    !.routed_on = ags,
                    !.routing_decision = d] : d \in route_request(ags, h.request)}

\* A routing that counts the request on the agents it selects.
registry_after_routing_counted(ags, h) ==
    [a \in AgentIds |->
        IF \E i \in DOMAIN h.routing_decision.selected_agents :
               h.routing_decision.selected_agents[i] = a
        THEN [ags[a] EXCEPT !.current_load = @ + 1]
        ELSE ags[a]]

\* A routing that refreshes health first and finds every agent healthy.
registry_after_routing_health_refreshed(ags, h) ==
    [a \in AgentIds |-> [ags[a] EXCEPT !.status = HEALTHY]]

\* The registry after _route_request has produced outcome h: the method,
\* like the rest of the request's processing, only reads self.agents.
registry_after_routing(ags, h) == ags

\* The routing step of a request whose client context is settled.
Route(h) ==
    \E outcome \in RouteOutcomes(h, agents) :
        /\ hreq' = outcome
        /\ agents' = registry_after_routing(agents, outcome)

InitHandlers ==
    /\ agents = InitialAgents
    /\ reqs = [r \in Reqs |-> IdleRequest]
    /\ admin_reply = NoAdminReply
    /\ call = NoCall
    /\ proj = NoProj
    /\ pair = NoPair
    /\ hreq = IdleHandler
    /\ synth = NoSynth
    /\ maintenance = NoMaintenance
    /\ status_reply = NoStatusReply

\* The handler's entry up to its first await.
HandlerStart(endpoint, request, user_id) ==
    /\ hreq.pc = "idle"
    /\ LET h == StartedHandler(endpoint, request, user_id) IN
       IF endpoint = COORDINATE_CLIENT /\ wants_client_context(request)
       THEN hreq' = [h EXCEPT !.pc = "validate"] /\ UNCHANGED agents
       ELSE Route(h)
    /\ UNCHANGED <<reqs, admin_reply, call, proj, pair, synth, maintenance, status_reply>>

\* _validate_client_access returns: denied, _get_client_context returns None
\* and the request is routed; granted, the profile is fetched next.
HandlerValidate(list_outcome) ==
    /\ hreq.pc = "validate"
    /\ LET accessible_clients == list_client_ids(list_outcome, hreq.user_id)
           h == [hreq EXCEPT !.store_queries = Append(@, "list_client_ids"),
                             !.list_error = list_outcome.raises,
                             !.accessible_clients = accessible_clients]
       IN  IF validate_client_access(accessible_clients, hreq.request.client_id.s)
           THEN hreq' = [h EXCEPT !.pc = "fetch"] /\ UNCHANGED agents
           ELSE Route(h)
    /\ UNCHANGED <<reqs, admin_reply, call, proj, pair, synth, maintenance, status_reply>>

\* _fetch_client_data returns, the context is built, the request is routed.
HandlerFetch(get_outcome) ==
    /\ hreq.pc = "fetch"
    /\ LET client_data == get_client_data(get_outcome, hreq.request.client_id.s)
           h == [hreq EXCEPT
                    !.store_queries = Append(@, "get_client_data"),
                    !.get_error = get_outcome.raises,
                    !.client_data = client_data,
                    !.client_context =
                        build_client_context(hreq.request.client_id.s, client_data)]
       IN  Route(h)
    /\ UNCHANGED <<reqs, admin_reply, call, proj, pair, synth, maintenance, status_reply>>

\* From the await of the gather to the handler's return: the responses, the
\* synthesis, the response object, the SLA check, `return response`.
HandlerGatherAndRespond(quality_score, total_processing_time, elapsed) ==
    /\ hreq.pc = "gathering"
    /\ LET responses ==
               IF hreq.endpoint = COORDINATE
               THEN gather_agent_responses(agents, hreq.routing_decision)
               ELSE gather_agent_responses_with_context(
                        agents, hreq.routing_decision, hreq.client_context)
       IN  hreq' = [hreq EXCEPT
                       !.pc = "completed",
                       !.agent_responses = responses,
                       !.synthesized_response = synthesize_responses(responses),
                       !.total_processing_time = total_processing_time,
                       !.quality_score = quality_score,
                       !.client_context_used =
                           IF hreq.endpoint = COORDINATE
                           THEN FALSE
                           ELSE client_context_used(hreq.client_context),
                       !.elapsed = elapsed,
                       !.sla_violation = sla_violation(elapsed),
                       !.status_code = 200]
    /\ UNCHANGED <<agents, reqs, admin_reply, call, proj, pair, synth, maintenance, status_reply>>

\* The caller has its answer.
HandlerDeliver ==
    /\ hreq.pc \in {"completed", "failed"}
    /\ hreq' = IdleHandler
    /\ UNCHANGED <<agents, reqs, admin_reply, call, proj, pair, synth, maintenance, status_reply>>

NextHandlers ==
    \/ \E endpoint \in {COORDINATE, COORDINATE_CLIENT} :
          \E request \in HandlerRequests(endpoint) :
              HandlerStart(endpoint, request, "test_user_123")
    \/ \E list_outcome \in HandlerListOutcomes : HandlerValidate(list_outcome)
    \/ \E get_outcome \in HandlerGetOutcomes : HandlerFetch(get_outcome)
    \/ \E quality_score \in QualityChoices,
          total_processing_time \in ProcessingTimeChoices,
          elapsed \in ElapsedChoices :
              HandlerGatherAndRespond(quality_score, total_processing_time, elapsed)
    \/ HandlerDeliver
    \/ \E agent_id \in AgentIds : RestartAgent(TRUE, agent_id)
    \/ EnterMaintenanceMode(TRUE)

SpecHandlers == InitHandlers /\ [][NextHandlers]_vars

(***************************************************************************)
(* _synthesize_responses as a function of any list of agent responses.      *)
(***************************************************************************)
MaxResponses == 2

\* AgentResponse objects as the method reads them; it reads only .response.
SynthesizeResponses ==
    [agent_id : {CONTENT_RESEARCH, TECHNICAL_SEO},
     agent_type : {CONTENT_RESEARCH},
     response : {"", "Simulated response", "Response with context: "},
     confidence : {0, SimulatedConfidence}]

RECURSIVE ListsUpTo(_, _)
ListsUpTo(S, n) ==
    IF n = 0 THEN {<<>>}
    ELSE LET shorter == ListsUpTo(S, n - 1) IN
         shorter \cup {Append(l, x) : l \in {m \in shorter : Len(m) = n - 1}, x \in S}

InitSynthesize ==
    /\ agents = InitialAgents
    /\ reqs = [r \in Reqs |-> IdleRequest]
    /\ admin_reply = NoAdminReply
    /\ call = NoCall
    /\ proj = NoProj
    /\ pair = NoPair
    /\ hreq = IdleHandler
    /\ synth \in [pc : {"called"},
                  agent_responses : ListsUpTo(SynthesizeResponses, MaxResponses),
                  raised : {FALSE},
                  text : {<<>>}]
    /\ maintenance = NoMaintenance
    /\ status_reply = NoStatusReply

\* The method has no raise statement and no operation that raises on a list
\* of AgentResponse objects: it returns the joined text.
SynthesizeResponsesCall ==
    /\ synth.pc = "called"
    /\ synth' = [synth EXCEPT !.pc = "returned",
                              !.raised = FALSE,
                              !.text = synthesize_responses(synth.agent_responses)]
    /\ UNCHANGED <<agents, reqs, admin_reply, call, proj, pair, hreq,
                   maintenance, status_reply>>

NextSynthesize == SynthesizeResponsesCall

SpecSynthesize == InitSynthesize /\ [][NextSynthesize]_vars

(***************************************************************************)
(* The status endpoints: GET /health/detailed, GET /agents/status and       *)
(* GET /agents/{agent_id}/status, answered while admin operations change    *)
(* the registry and POST /coordinate requests are routed on it.  None of    *)
(* them has an await between its first read of the registry and its last.   *)
(***************************************************************************)
\* The keys of self.agents in the dict's iteration (insertion) order.
RegistryOrder == <<"content_research_agent", "technical_seo_agent">>

\* random.uniform(0.8, 1.0) of each status entry, in hundredths: the ends.
SuccessRates == [AgentIds -> {80, 100}]

\* random.randint(0, 1000): the ends.
TotalRequestsTodayChoices == {0, 1000}

\* `if not agent: raise ValueError("Agent not found")`
agent_status_raises(ags, agent_id) == agent_id \notin DOMAIN ags

\* The AgentStatus built from a registry entry (last_health_check and
\* endpoint_url, copied as they are, are left out of the registry here).
agent_status(ags, agent_id, success_rate) ==
    [agent_id |-> agent_id,
     agent_type |-> ags[agent_id].type,
     status |-> ags[agent_id].status,
     current_load |-> ags[agent_id].current_load,
     max_capacity |-> ags[agent_id].max_capacity,
     average_response_time |-> ags[agent_id].average_response_time,
     success_rate |-> success_rate,
     version |-> "1.0.0"]

\* A status list that reports the healthy agents only.
all_agent_statuses_healthy_only(ags, success_rates) ==
    LET healthy == SelectSeq(RegistryOrder, LAMBDA a : ags[a].status = HEALTHY) IN
    [i \in DOMAIN healthy |-> agent_status(ags, healthy[i], success_rates[healthy[i]])]

\* [self._get_agent_status(aid) for aid in self.agents]
all_agent_statuses(ags, success_rates) ==
    [i \in DOMAIN RegistryOrder |->
        agent_status(ags, RegistryOrder[i], success_rates[RegistryOrder[i]])]

RECURSIVE SumOfLoads(_, _)
SumOfLoads(ags, ids) ==
    IF ids = {} THEN 0
    ELSE LET a == CHOOSE x \in ids : TRUE IN
         ags[a].current_load + SumOfLoads(ags, ids \ {a})

\* sum(agent["current_load"] for agent in self.agents.values())
active_requests(ags) == SumOfLoads(ags, DOMAIN ags)

\* What a status endpoint answered.
StatusReply(kind, agent_id, status_code, error, statuses, active, total_requests_today) ==
    [kind |-> kind,
     agent_id |-> agent_id,
     status_code |-> status_code,
     error |-> error,
     agents |-> statuses,
     active_requests |-> active,
     total_requests_today |-> total_requests_today]

InitStatus ==
    /\ agents = InitialAgents
    /\ reqs = [r \in Reqs |-> IdleRequest]
    /\ admin_reply = NoAdminReply
    /\ call = NoCall
    /\ proj = NoProj
    /\ pair = NoPair
    /\ hreq = IdleHandler
    /\ synth = NoSynth
    /\ maintenance = NoMaintenance
    /\ status_reply = NoStatusReply

\* GET /health/detailed: get_system_health.
GetSystemHealth(success_rates, total_requests_today) ==
    /\ status_reply' = StatusReply("health", "", 200, "",
                                   all_agent_statuses(agents, success_rates),
                                   active_requests(agents),
                                   total_requests_today)
    /\ UNCHANGED <<agents, reqs, admin_reply, call, proj, pair, hreq, synth,
                   maintenance>>

\* GET /agents/status: get_agent_status() without an id.
GetAgentStatus(success_rates) ==
    /\ status_reply' = StatusReply("list", "", 200, "",
                                   all_agent_statuses(agents, success_rates), 0, 0)
    /\ UNCHANGED <<agents, reqs, admin_reply, call, proj, pair, hreq, synth,
                   maintenance>>

\* GET /agents/{agent_id}/status.  For an unknown id the ValueError of
\* _get_agent_status passes get_agent_status and the handler, neither of
\* which catches it, and the caller sees the framework's HTTP 500.  For a
\* registered id the handler returns the one-element list it was given
\* (never falsy, so its 404 branch is not taken); the framework then checks
\* that list against response_model=AgentStatus, outside this source, so the
\* status code is either outcome.
GetSpecificAgentStatus(agent_id, success_rate, framework_status_code) ==
    /\ IF agent_status_raises(agents, agent_id)
       THEN status_reply' = StatusReply("specific", agent_id, 500, "ValueError",
                                        <<>>, 0, 0)
       ELSE status_reply' = StatusReply("specific", agent_id,
                                        framework_status_code, "",
                                        <<agent_status(agents, agent_id, success_rate)>>,
                                        0, 0)
    /\ UNCHANGED <<agents, reqs, admin_reply, call, proj, pair, hreq, synth,
                   maintenance>>

NextStatus ==
    \/ \E success_rates \in SuccessRates,
          total_requests_today \in TotalRequestsTodayChoices :
              GetSystemHealth(success_rates, total_requests_today)
    \/ \E success_rates \in SuccessRates : GetAgentStatus(success_rates)
    \/ \E agent_id \in AdminAgentIds, success_rate \in {80, 100},
          framework_status_code \in {200, 500} :
              GetSpecificAgentStatus(agent_id, success_rate, framework_status_code)
    \/ \E request \in HandlerRequests(COORDINATE) :
          HandlerStart(COORDINATE, request, "test_user_123")
    \/ HandlerGatherAndRespond(70, 1, 10)
    \/ HandlerDeliver
    \/ \E is_admin \in BOOLEAN, agent_id \in AdminAgentIds :
          RestartAgent(is_admin, agent_id)
    \/ \E is_admin \in BOOLEAN : EnterMaintenanceMode(is_admin)

SpecStatus == InitStatus /\ [][NextStatus]_vars

(***************************************************************************)
(* Routing claims, checked under Spec.                                     *)
(***************************************************************************)
Range(seq) == {seq[i] : i \in DOMAIN seq}

\* The requests _route_request has produced a decision for.
Routed(r) == reqs[r].pc \in {"gathering", "completed"}

Selected(r) == Range(reqs[r].routing_decision.selected_agents)

\* An agent is eligible in a registry: HEALTHY and below capacity.
Eligible(ags, a) ==
    /\ ags[a].status = HEALTHY
    /\ ags[a].current_load < ags[a].max_capacity

\* C1: every agent a decision selects was HEALTHY and below capacity in the
\* registry the decision was taken on; no DEGRADED, UNAVAILABLE, MAINTENANCE or
\* full agent is selected, whatever requests and admin operations came before.
C1_SelectedAgentsEligible ==
    \A r \in Reqs : \A a \in Selected(r) :
        /\ reqs[r].routed_on[a].status = HEALTHY
        /\ reqs[r].routed_on[a].status \notin {DEGRADED, UNAVAILABLE, MAINTENANCE}
        /\ reqs[r].routed_on[a].current_load < reqs[r].routed_on[a].max_capacity

\* A decision taken while the other agent was in MAINTENANCE.
C1_Witness ==
    \E r \in Reqs :
        /\ Routed(r)
        /\ Selected(r) # {}
        /\ \E b \in AgentIds : reqs[r].routed_on[b].status = MAINTENANCE

\* C2: the step that selects agents for a request raises the current_load of
\* every selected agent by exactly 1 and leaves every other agent's load alone.
C2_LoadIncrementedWithSelection ==
    [][\A r \in Reqs :
          (reqs[r].pc = "idle" /\ reqs'[r].pc = "gathering") =>
              \A a \in AgentIds :
                  agents'[a].current_load =
                      agents[a].current_load
                          + (IF a \in Range(reqs'[r].routing_decision.selected_agents)
                             THEN 1 ELSE 0)]_vars

\* C3: in every reachable state every agent has 0 <= current_load <= max_capacity.
C3_LoadWithinCapacity ==
    \A a \in AgentIds :
        /\ 0 <= agents[a].current_load
        /\ agents[a].current_load <= agents[a].max_capacity

\* Two requests in progress on the same agent after an admin operation succeeded.
C3_Witness ==
    /\ admin_reply.status_code = 200
    /\ admin_reply.success
    /\ \E r1, r2 \in Reqs :
          /\ r1 # r2
          /\ reqs[r1].pc = "gathering"
          /\ reqs[r2].pc = "gathering"
          /\ Selected(r1) = Selected(r2)

\* C4: a request routed on a registry with no eligible agent ends FAILED with
\* the routing error (the IndexError of random.choice is the code's
\* no-eligible-agent error): it has no decision, no agent was invoked, no
\* response was synthesized, and the caller sees HTTP 500.
C4_NoEligibleAgentFails ==
    \A r \in Reqs :
        (reqs[r].pc # "idle" /\ \A a \in AgentIds : ~Eligible(reqs[r].routed_on, a)) =>
            /\ reqs[r].pc = "failed"
            /\ reqs[r].error = "IndexError"
            /\ reqs[r].status_code = 500
            /\ reqs[r].routing_decision.selected_agents = <<>>
            /\ reqs[r].agent_responses = <<>>
            /\ reqs[r].synthesized_response = <<>>

\* A request that found every agent in MAINTENANCE.
C4_Witness ==
    \E r \in Reqs :
        /\ reqs[r].pc = "failed"
        /\ \A a \in AgentIds : reqs[r].routed_on[a].status = MAINTENANCE

\* C5: two routings of the same request on the same registry snapshot, with at
\* least one eligible agent, produce the same decision.
C5_RoutingDeterministic ==
    \A r1, r2 \in Reqs :
        (/\ Routed(r1)
         /\ Routed(r2)
         /\ reqs[r1].routed_on = reqs[r2].routed_on
         /\ reqs[r1].request = reqs[r2].request) =>
            reqs[r1].routing_decision = reqs[r2].routing_decision

\* a is at least as good as b: lower load ratio, then lower
\* average_response_time, then smaller id.
Better(ags, a, b) ==
    LET ra == ags[a].current_load * ags[b].max_capacity
        rb == ags[b].current_load * ags[a].max_capacity
    IN  \/ ra < rb
        \/ /\ ra = rb
           /\ ags[a].average_response_time < ags[b].average_response_time
        \/ /\ ra = rb
           /\ ags[a].average_response_time = ags[b].average_response_time
           /\ IdRank[a] <= IdRank[b]

\* C6: single-agent routing selects, among the eligible agents, the one with
\* the lowest load ratio, then the lowest average_response_time, then the
\* lexically smallest id.
C6_SelectsBestAgent ==
    \A r \in Reqs :
        (Routed(r) /\ ~reqs[r].request.require_multi_agent) =>
            \A a \in Selected(r) : \A b \in AgentIds :
                Eligible(reqs[r].routed_on, b) => Better(reqs[r].routed_on, a, b)

\* C7: with preferred_agents given, every selected agent has a preferred type,
\* and the request fails when no eligible agent has one.
C7_PreferredAgentsRespected ==
    \A r \in Reqs :
        (reqs[r].pc # "idle" /\ ~reqs[r].request.preferred_agents.none) =>
            LET preferred == Range(reqs[r].request.preferred_agents.val) IN
            /\ \A a \in Selected(r) : reqs[r].routed_on[a].type \in preferred
            /\ (\A a \in AgentIds :
                    Eligible(reqs[r].routed_on, a) =>
                        reqs[r].routed_on[a].type \notin preferred)
                => reqs[r].pc = "failed"

\* C8: with require_multi_agent the decision holds one agent per type and at
\* least two types; without it the decision holds exactly one agent.
C8_MultiAgentSelection ==
    \A r \in Reqs :
        Routed(r) =>
            LET sel == reqs[r].routing_decision.selected_agents IN
            IF reqs[r].request.require_multi_agent
            THEN /\ Len(sel) >= 2
                 /\ \A i, j \in DOMAIN sel :
                        i # j => reqs[r].routed_on[sel[i]].type
                                    # reqs[r].routed_on[sel[j]].type
            ELSE Len(sel) = 1

(***************************************************************************)
(* Client-context claims.                                                  *)
(***************************************************************************)
\* What the store holds for the call's client, as get_client_data returns it.
StoreProfile == get_client_data(call.get_outcome, call.client_id)

\* C9 as stated: resolve returns a context if and only if the client id is in
\* the list the store reported for the user and the store's profile for the
\* client is not None.
C9_ContextIffAccessibleAndProfileNotNone ==
    call.pc = "done" =>
        (call.result # PyNone <=>
            (call.client_id \in call.accessible_clients /\ StoreProfile # PyNone))

\* C9 amended: resolve returns a context if and only if the client id is in
\* the list the store reported for the user and the store's profile for the
\* client is neither None nor empty; it returns None in every other case.
C9_ContextIffAccessibleAndProfileNonEmpty ==
    call.pc = "done" =>
        (call.result # PyNone <=>
            (call.client_id \in call.accessible_clients /\ Truthy(StoreProfile)))

\* A call that returned a context.
C9_Witness ==
    /\ call.pc = "done"
    /\ call.result # PyNone
    /\ call.client_id \in call.accessible_clients

\* The whitelist row of an agent type (spec, section 4.4).
Whitelist(agent_type) ==
    IF agent_type = CONTENT_RESEARCH
    THEN {"brand_voice", "target_audience", "compliance_notes"}
    ELSE IF agent_type = TECHNICAL_SEO
    THEN {"brand_voice", "compliance_notes"}
    ELSE {"client_id"}

\* C10: the projection's keys are in the agent type's whitelist row;
\* content-research gets brand_voice, target_audience and compliance_notes as
\* they are; technical-seo gets compliance_notes and the tone of brand_voice,
\* never the brand voice itself nor target_audience; any other type gets
\* client_id alone; None gives the empty map.
C10_ProjectionWithinWhitelist ==
    proj.pc = "returned" =>
        LET ctx == proj.client_context
            out == proj.agent_context.d
        IN  IF ctx = PyNone
            THEN out = <<>>
            ELSE /\ DOMAIN out \subseteq Whitelist(proj.agent.type)
                 /\ proj.agent.type = CONTENT_RESEARCH =>
                        /\ DOMAIN out = Whitelist(CONTENT_RESEARCH)
                        /\ out.brand_voice = ctx.brand_voice
                        /\ out.target_audience = ctx.target_audience
                        /\ out.compliance_notes = ctx.compliance_notes
                 /\ proj.agent.type = TECHNICAL_SEO =>
                        /\ DOMAIN out = Whitelist(TECHNICAL_SEO)
                        /\ out.compliance_notes = ctx.compliance_notes
                        /\ out.brand_voice =
                               (IF ctx.brand_voice.py = "dict"
                                   /\ "tone" \in DOMAIN ctx.brand_voice.d
                                THEN ctx.brand_voice.d.tone ELSE PyNone)
                        /\ Truthy(ctx.brand_voice) => out.brand_voice # ctx.brand_voice
                 /\ proj.agent.type \notin {CONTENT_RESEARCH, TECHNICAL_SEO} =>
                        out = [client_id |-> Str(ctx.client_id)]

\* technical-seo projected a context whose brand voice has a tone.
C10_Witness ==
    /\ proj.pc = "returned"
    /\ proj.agent.type = TECHNICAL_SEO
    /\ proj.client_context # PyNone
    /\ Truthy(proj.client_context.brand_voice)
    /\ proj.agent_context.d.brand_voice = Str("professional")

\* The whitelisted fields of a raw profile: brand guidelines tone, voice,
\* avoid-words and messaging pillars, target audience primary, age range and
\* interests, and the compliance requirements; None stands for an absent field.
WhitelistedView(profile) ==
    LET brand == Get(profile, "brand_guidelines", EmptyDict)
        audience == Get(profile, "target_audience", EmptyDict)
    IN  [tone |-> Get(brand, "tone", PyNone),
         voice |-> Get(brand, "voice", PyNone),
         avoid_words |-> Get(brand, "avoid_words", PyNone),
         messaging_pillars |-> Get(brand, "messaging_pillars", PyNone),
         primary |-> Get(audience, "primary", PyNone),
         age_range |-> Get(audience, "age_range", PyNone),
         interests |-> Get(audience, "interests", PyNone),
         compliance_requirements |-> Get(profile, "compliance_requirements", PyNone)]

\* Which of the profile, its brand card and its audience card are empty.
Emptiness(profile) ==
    <<Truthy(profile),
      Truthy(Get(profile, "brand_guidelines", PyNone)),
      Truthy(Get(profile, "target_audience", PyNone))>>

SameContexts ==
    /\ pair.context1 = pair.context2
    /\ agent_contexts(pair.context1) = agent_contexts(pair.context2)

\* C11 as stated: two raw profiles that agree on the whitelisted fields yield
\* identical ClientContexts and identical per-agent contexts.
C11_ContextDependsOnWhitelistedFieldsOnly ==
    (pair.pc = "built"
        /\ WhitelistedView(pair.profile1) = WhitelistedView(pair.profile2))
    => SameContexts

\* C11 amended: two raw profiles that agree on the whitelisted fields, and on
\* whether the profile, its brand guidelines and its target audience are empty,
\* yield identical ClientContexts and identical per-agent contexts.
C11_ContextDependsOnWhitelistedFieldsAndEmptiness ==
    (pair.pc = "built"
        /\ WhitelistedView(pair.profile1) = WhitelistedView(pair.profile2)
        /\ Emptiness(pair.profile1) = Emptiness(pair.profile2))
    => SameContexts

\* Two different profiles with the same whitelisted fields gave one context.
C11_Witness ==
    /\ pair.pc = "built"
    /\ pair.profile1 # pair.profile2
    /\ WhitelistedView(pair.profile1) = WhitelistedView(pair.profile2)
    /\ Emptiness(pair.profile1) = Emptiness(pair.profile2)
    /\ pair.context1 # PyNone
    /\ Truthy(pair.context1.brand_voice)
    /\ pair.context1 = pair.context2

(***************************************************************************)
(* Handler claims, checked under SpecHandlers.                             *)
(***************************************************************************)
\* The request's context resolution has ended.
ResolutionOver == hreq.pc \in {"gathering", "completed", "failed"}

\* The request asked the store for something.
StoreQueried == hreq.store_queries # <<>>

\* The resolution ran and gave no context.
NullResolution ==
    /\ ResolutionOver
    /\ StoreQueried
    /\ hreq.client_context = PyNone

\* C12: a context resolution that yields no context never fails the request.
\* The request is routed (and fails only if routing finds no eligible agent),
\* it completes with status 200 and client_context_used false, and every
\* selected agent was invoked with an empty context.
C12_NullContextNeverFailsRequest ==
    NullResolution =>
        /\ hreq.pc = "failed" => available_agents(hreq.routed_on) = {}
        /\ hreq.pc # "failed" => hreq.routed
        /\ hreq.pc = "completed" =>
              /\ hreq.status_code = 200
              /\ hreq.client_context_used = FALSE
              /\ Len(hreq.agent_responses)
                     = Len(hreq.routing_decision.selected_agents)
              /\ \A i \in DOMAIN hreq.agent_responses :
                    /\ hreq.agent_responses[i].agent_context = EmptyDict
                    /\ hreq.agent_responses[i].metadata.client_context_used = FALSE

\* A request whose access check was denied, or whose profile was missing, has
\* completed.
C12_Witness ==
    /\ NullResolution
    /\ hreq.pc = "completed"
    /\ hreq.agent_responses # <<>>

\* C13: stages follow the order SUBMITTED -> ROUTED -> CONTEXT_RESOLVED ->
\* ...: the client context is resolved only after routing has succeeded, so a
\* request whose resolution has asked the store anything has been routed.
C13_ContextResolvedOnlyAfterRouting ==
    (hreq.pc # "idle" /\ StoreQueried) => hreq.routed

\* The request carries the flag and a client id (an empty id counts as none).
ContextRequested ==
    /\ hreq.endpoint = COORDINATE_CLIENT
    /\ hreq.request.use_client_context
    /\ hreq.request.client_id # PyNone
    /\ hreq.request.client_id # Str("")

\* C14: context resolution is attempted only if use_client_context is true
\* and a client id is present.  A request with the flag off or no client id
\* never queries the client store, resolves no context, fails only if routing
\* finds no eligible agent, and completes with client_context_used false.
C14_ResolutionOnlyWhenRequested ==
    hreq.pc # "idle" =>
        /\ StoreQueried => ContextRequested
        /\ ~ContextRequested =>
              /\ ~StoreQueried
              /\ hreq.client_context = PyNone
              /\ hreq.pc = "failed" => available_agents(hreq.routed_on) = {}
              /\ hreq.pc = "completed" =>
                    /\ hreq.status_code = 200
                    /\ hreq.client_context_used = FALSE

\* A request that names a client with the flag off has completed without a
\* store query.
C14_Witness ==
    /\ hreq.pc = "completed"
    /\ hreq.endpoint = COORDINATE_CLIENT
    /\ hreq.request.client_id = Str("promise_money")
    /\ ~hreq.request.use_client_context
    /\ ~StoreQueried
    /\ hreq.client_context_used = FALSE

C16_EmptySynthesisRaises ==
    (synth.pc = "returned" /\ synth.agent_responses = <<>>) =>
        (synth.raised /\ synth.text = <<>>)

\* C17: a request completed with exactly one agent response r has a
\* synthesized text that contains r.response and a quality score equal to
\* r.confidence.
C17_SingleResponseQualityIsConfidence ==
    (hreq.pc = "completed" /\ Len(hreq.agent_responses) = 1) =>
        /\ \E i \in DOMAIN hreq.synthesized_response :
              hreq.synthesized_response[i] = hreq.agent_responses[1].response
        /\ hreq.quality_score = hreq.agent_responses[1].confidence

\* C18: a request whose end-to-end time exceeds the SLA threshold of 2 s is
\* flagged as an SLA violation but not failed: it returns with status 200 the
\* response it would have returned otherwise (its agent responses and their
\* synthesis).  A request within the threshold is never flagged.
C18_SlaBreachFlaggedNotFailed ==
    hreq.pc = "completed" =>
        /\ hreq.sla_violation <=> hreq.elapsed > SlaThreshold
        /\ hreq.status_code = 200
        /\ hreq.error = ""
        /\ hreq.agent_responses # <<>>
        /\ hreq.synthesized_response = synthesize_responses(hreq.agent_responses)

\* A request that took 3 s has been answered, flagged.
C18_Witness ==
    /\ hreq.pc = "completed"
    /\ hreq.elapsed > SlaThreshold
    /\ hreq.sla_violation
    /\ hreq.status_code = 200

(***************************************************************************)
(* Admin claims, checked under Spec.                                        *)
(***************************************************************************)
\* C19: an admin's restart of agent a sets a's load to 0 and its status to
\* HEALTHY, keeps a's other fields, and leaves every other agent unchanged.
C19_RestartResetsOnlyThatAgent ==
    [][\A a \in AgentIds :
          RestartAgent(TRUE, a) =>
              /\ agents'[a] = [agents[a] EXCEPT !.current_load = 0,
                                                !.status = HEALTHY]
              /\ \A b \in AgentIds \ {a} : agents'[b] = agents[b]]_vars

\* One agent has been restarted out of maintenance mode while the other is
\* still in it.
C19_Witness ==
    /\ admin_reply = [status_code |-> 200, success |-> TRUE]
    /\ \E a, b \in AgentIds :
          /\ a # b
          /\ agents[a].status = HEALTHY
          /\ agents[a].current_load = 0
          /\ agents[b].status = MAINTENANCE

\* C20: an admin's entering maintenance mode sets every agent's status to
\* MAINTENANCE and changes no load, no capacity and no other field.
C20_MaintenanceSetsEveryStatusOnly ==
    [][EnterMaintenanceMode(TRUE) =>
          \A a \in AgentIds :
              /\ agents'[a].status = MAINTENANCE
              /\ agents'[a].current_load = agents[a].current_load
              /\ agents'[a].max_capacity = agents[a].max_capacity
              /\ agents'[a] = [agents[a] EXCEPT !.status = MAINTENANCE]]_vars

\* The whole pool is in maintenance mode after the admin's call, with a
\* request still in flight on an agent.
C20_Witness ==
    /\ admin_reply = [status_code |-> 200, success |-> TRUE]
    /\ \A a \in AgentIds :
          /\ agents[a].status = MAINTENANCE
          /\ agents[a].current_load = 0
          /\ agents[a].max_capacity = InitialMaxCapacity
    /\ \E r \in Reqs : reqs[r].pc = "gathering"

(***************************************************************************)
(* Status claims, checked under SpecStatus.                                 *)
(***************************************************************************)
\* C21: GET /agents/{id}/status for an id that is not in the registry is
\* answered with 404 (not a 500 and not a success).
C21_UnknownAgentIsNotFound ==
    (status_reply.kind = "specific" /\ status_reply.agent_id \notin AgentIds) =>
        status_reply.status_code = 404

(***************************************************************************)
(* Admin role and request frame claims.                                     *)
(***************************************************************************)
\* C22: restart and enter-maintenance take effect only for an admin.  A call
\* by a non-admin is rejected (403) and leaves every agent of the registry
\* unchanged, and the registry changes only in a step that answers an admin
\* operation with 200.
C22_AdminOperationsRequireAdmin ==
    [][/\ ((\E a \in AdminAgentIds : RestartAgent(FALSE, a))
              \/ EnterMaintenanceMode(FALSE)) =>
                  /\ agents' = agents
                  /\ admin_reply'.status_code = 403
       /\ agents' # agents => admin_reply'.status_code = 200]_vars

\* A non-admin has been rejected while an agent is in maintenance mode, which
\* the rejected call neither entered nor ended.
C22_Witness ==
    /\ admin_reply.status_code = 403
    /\ \E a, b \in AgentIds :
          /\ agents[a].status = MAINTENANCE
          /\ agents[b].status = HEALTHY

\* The registry as whole admin operations leave it: before any maintenance
\* call every agent is healthy; after one, exactly the agents restarted since
\* are out of MAINTENANCE, healthy and with load 0.
WholeRegistry(ags, m) ==
    \A a \in AgentIds :
        /\ ~m.entered => ags[a].status = HEALTHY
        /\ m.entered => (ags[a].status = MAINTENANCE <=> a \notin m.restarted)
        /\ m.entered /\ a \in m.restarted =>
              (ags[a].status = HEALTHY /\ ags[a].current_load = 0)

\* This step routes a request (reads the registry for a routing decision).
RoutingStep == hreq.pc = "idle" /\ hreq'.pc \in {"gathering", "failed"}

\* This step answers GET /health/detailed or GET /agents/status.
SnapshotStep ==
    /\ status_reply' # status_reply
    /\ status_reply'.kind \in {"health", "list"}

\* C23: registry mutations are atomic for concurrent readers.  The registry
\* is at every step in a state between whole admin operations, and a routing
\* decision or status snapshot taken in a step reads exactly that registry:
\* never some agents already MAINTENANCE and others not yet, nor an agent
\* reset to HEALTHY with its old load.
C23_ReadersSeeWholeMutations ==
    [][/\ WholeRegistry(agents, maintenance)
       /\ WholeRegistry(agents', maintenance')
       /\ RoutingStep => hreq'.routed_on = agents
       /\ SnapshotStep =>
             /\ Len(status_reply'.agents) = Cardinality(AgentIds)
             /\ \A i \in DOMAIN status_reply'.agents :
                   LET entry == status_reply'.agents[i] IN
                   /\ entry.status = agents[entry.agent_id].status
                   /\ entry.current_load = agents[entry.agent_id].current_load]_vars

\* A status list and a routing decision were both taken between a
\* maintenance call and the restart of the second agent.
C23_Witness ==
    /\ maintenance.entered
    /\ Cardinality(maintenance.restarted) = 1
    /\ status_reply.kind = "list"
    /\ \E i, j \in DOMAIN status_reply.agents :
          /\ status_reply.agents[i].status = MAINTENANCE
          /\ status_reply.agents[j].status = HEALTHY
    /\ hreq.pc = "gathering"
    /\ \E a \in AgentIds : hreq.routed_on[a].status = MAINTENANCE

\* C24: get_system_health and get_agent_status without an id return exactly
\* one status entry per registered agent, each with that agent's health, load
\* and capacity as the registry holds them at call time; active_requests of
\* the health snapshot is the sum of the agents' current loads; the registry
\* is the same after the call.
C24_SnapshotShowsRegistry ==
    [][SnapshotStep =>
          /\ agents' = agents
          /\ status_reply'.status_code = 200
          /\ Len(status_reply'.agents) = Cardinality(AgentIds)
          /\ \A a \in AgentIds :
                \E i \in DOMAIN status_reply'.agents :
                    LET entry == status_reply'.agents[i] IN
                    /\ entry.agent_id = a
                    /\ entry.agent_type = agents[a].type
                    /\ entry.status = agents[a].status
                    /\ entry.current_load = agents[a].current_load
                    /\ entry.max_capacity = agents[a].max_capacity
          /\ status_reply'.kind = "health" =>
                status_reply'.active_requests
                    = agents["content_research_agent"].current_load
                        + agents["technical_seo_agent"].current_load]_vars

\* A health snapshot taken in maintenance mode lists both agents.
C24_Witness ==
    /\ status_reply.kind = "health"
    /\ Len(status_reply.agents) = 2
    /\ \A i \in DOMAIN status_reply.agents :
          /\ status_reply.agents[i].status = MAINTENANCE
          /\ status_reply.agents[i].max_capacity = InitialMaxCapacity
    /\ status_reply.active_requests = 0

(***************************************************************************)
(* Routing decision as a snapshot, checked under Spec.                      *)
(***************************************************************************)
\* The selected-agent data a holder of request r's routing decision reads:
\* selected_agents holds the registry's own dicts, so it reads the registry.
DecisionData(r) ==
    [i \in DOMAIN reqs[r].routing_decision.selected_agents |->
        agents[reqs[r].routing_decision.selected_agents[i]]]

\* C25: a RoutingDecision is a read-only snapshot once produced.  While a
\* completed request's response is held, no registry mutation alters the
\* selected-agent data of the routing decision it carries.
C25_RoutingDecisionIsSnapshot ==
    [][\A r \in Reqs :
          (reqs[r].pc = "completed" /\ reqs'[r] = reqs[r]) =>
              DecisionData(r)' = DecisionData(r)]_vars

(***************************************************************************)
(* Request frame, maintenance and store claims, checked under SpecHandlers. *)
(***************************************************************************)
\* C26: processing a coordination request (process_request or
\* process_request_with_client), whether it succeeds or fails, leaves the
\* registry unchanged: no step of a request changes the set of agents or any
\* agent's health, current_load or max_capacity.
C26_RequestLeavesRegistryUnchanged ==
    [][hreq' # hreq =>
          /\ DOMAIN agents' = DOMAIN agents
          /\ \A a \in DOMAIN agents :
                /\ agents'[a].status = agents[a].status
                /\ agents'[a].current_load = agents[a].current_load
                /\ agents'[a].max_capacity = agents[a].max_capacity
          /\ agents' = agents]_vars

\* A client request has resolved its context, been routed and completed with
\* no admin operation at all, and the registry is as it was constructed.
C26_Witness ==
    /\ hreq.pc = "completed"
    /\ hreq.endpoint = COORDINATE_CLIENT
    /\ hreq.client_context_used
    /\ admin_reply = NoAdminReply
    /\ agents = InitialAgents

\* This step routes the handler's request: _route_request returns or raises.
RoutedInStep ==
    /\ hreq.pc \in {"idle", "validate", "fetch"}
    /\ hreq'.pc \in {"gathering", "failed"}

\* C27: after enter_maintenance_mode, every request routed before any
\* restart_agent has succeeded fails (HTTP 500); once some have, a request is
\* routed only to agents restarted since the maintenance call; and only a
\* successful restart_agent of an agent takes it out of MAINTENANCE.
C27_MaintenanceUntilRestart ==
    [][/\ (RoutedInStep /\ maintenance.entered /\ maintenance.restarted = {}) =>
              (hreq'.pc = "failed" /\ hreq'.status_code = 500)
       /\ (RoutedInStep /\ maintenance.entered /\ hreq'.pc = "gathering") =>
              \A i \in DOMAIN hreq'.routing_decision.selected_agents :
                  hreq'.routing_decision.selected_agents[i] \in maintenance.restarted
       /\ \A a \in AgentIds :
             (agents[a].status = MAINTENANCE /\ agents'[a].status # MAINTENANCE) =>
                 /\ RestartAgent(TRUE, a)
                 /\ admin_reply'.success]_vars

\* After a maintenance call one agent has been restarted and a request has
\* been routed to it, the other agent still being in maintenance.
C27_Witness ==
    /\ maintenance.entered
    /\ hreq.pc = "gathering"
    /\ \E a, b \in AgentIds :
          /\ maintenance.restarted = {a}
          /\ hreq.routing_decision.selected_agents = <<a>>
          /\ hreq.routed_on[b].status = MAINTENANCE
          /\ agents[b].status = MAINTENANCE

\* C28: within context resolution the access check strictly precedes the
\* profile fetch.  get_client_data is called only as the second store query,
\* after list_client_ids, and only if the listed ids contain the request's
\* client id; a request whose access was denied never fetches a profile.
C28_AccessCheckBeforeFetch ==
    hreq.pc # "idle" =>
        /\ \A i \in DOMAIN hreq.store_queries :
              hreq.store_queries[i] = "get_client_data" =>
                  /\ i = 2
                  /\ hreq.store_queries[1] = "list_client_ids"
                  /\ hreq.request.client_id.s \in hreq.accessible_clients
        /\ hreq.pc = "fetch" =>
              /\ hreq.store_queries = <<"list_client_ids">>
              /\ hreq.request.client_id.s \in hreq.accessible_clients
        /\ (StoreQueried /\ hreq.request.client_id.s \notin hreq.accessible_clients) =>
              /\ hreq.store_queries = <<"list_client_ids">>
              /\ hreq.client_data = PyNone

\* A profile has been fetched for a user whose access was granted.
C28_Witness ==
    /\ hreq.pc = "gathering"
    /\ hreq.store_queries = <<"list_client_ids", "get_client_data">>
    /\ hreq.accessible_clients = {"promise_money"}
    /\ hreq.client_data = MockClientData("promise_money")

\* C29: a store backend error never grants access and never fails the
\* request.  An error while listing is an empty access list (denied, nothing
\* fetched); an error while fetching is a missing profile; either way there is
\* no context, the request fails only if routing finds no eligible agent, and
\* it completes with status 200 and client_context_used false.
C29_StoreErrorDeniesAndCompletes ==
    hreq.pc # "idle" =>
        /\ hreq.list_error =>
              /\ hreq.accessible_clients = {}
              /\ hreq.store_queries = <<"list_client_ids">>
              /\ hreq.pc # "fetch"
        /\ hreq.get_error => hreq.client_data = PyNone
        /\ (hreq.list_error \/ hreq.get_error) =>
              /\ hreq.client_context = PyNone
              /\ hreq.pc = "failed" => available_agents(hreq.routed_on) = {}
              /\ hreq.pc = "completed" =>
                    /\ hreq.status_code = 200
                    /\ hreq.client_context_used = FALSE

\* A request whose profile fetch hit a backend error has completed.
C29_Witness ==
    /\ hreq.pc = "completed"
    /\ hreq.get_error
    /\ hreq.status_code = 200
    /\ hreq.client_context_used = FALSE

=============================================================================
